---- MODULE Spec2Model ----
\* Response frame model and wire serializer of easy-modbus
\* (src/frame/response.rs): the Response tagged union, its nine body
\* structures, Response::set_head, the From<..> for BytesMut encoders and
\* response_to_bytesmut.
EXTENDS Integers, Sequences, FiniteSets, TLC

VARIABLES frame, item, dst, start, last, alone, new_head, text, op

vars == <<frame, item, dst, start, last, alone, new_head, text, op>>

\* ------------------------------------------------------------------ bounds
\* encode calls made into one output buffer
MaxFrames == 2
\* longest read-style value vector the short inputs enumerate
MaxLen == 2

\* ------------------------------------------------------- integer widths
U8 == 256
U16 == 65536

\* `x as u8` : truncating cast (response.rs:99,139,171,205)
as_u8(x) == x % U8

\* `x as u16` : truncating cast (response.rs:93)
as_u16(x) == x % U16

\* BufMut::put_u8 : one byte appended
put_u8(buf, b) == Append(buf, b)

\* put_u16 writing the least significant byte first
put_u16_le(buf, w) == buf \o <<w % U8, w \div U8>>

\* BufMut::put_u16 : two bytes appended, most significant byte first
put_u16(buf, w) == buf \o <<w \div U8, w % U8>>

\* BufMut::put_slice / BufMut::put : the bytes appended in order
put_slice(buf, bytes) == buf \o bytes

\* --------------------------------------------------- bit operations
RECURSIVE BitXor(_, _, _)
BitXor(a, b, n) ==
    IF n = 0 THEN 0
    ELSE ((a + b) % 2) + 2 * BitXor(a \div 2, b \div 2, n - 1)

RECURSIVE BitOr(_, _, _)
BitOr(a, b, n) ==
    IF n = 0 THEN 0
    ELSE (IF a % 2 = 1 \/ b % 2 = 1 THEN 1 ELSE 0)
         + 2 * BitOr(a \div 2, b \div 2, n - 1)

\* ------------------------------------------------------------ checksum
\* util::crc::compute : CRC-16 of the serial transport, reflected
\* polynomial 0xA001, initial value 0xFFFF
Poly == 40961

\* one bit of the inner loop: shift right, xor the polynomial on carry
crc_bit(crc) ==
    IF crc % 2 = 1 THEN BitXor(crc \div 2, Poly, 16) ELSE crc \div 2

\* one input byte: xor into the low byte, then eight bit steps
crc_byte(crc, byte) ==
    crc_bit(crc_bit(crc_bit(crc_bit(
    crc_bit(crc_bit(crc_bit(crc_bit(BitXor(crc, byte, 16)))))))))

\* the loop over data[lo..hi], split in halves to bound the nesting
RECURSIVE crc_fold(_, _, _, _)
crc_fold(crc, data, lo, hi) ==
    IF lo > hi THEN crc
    ELSE IF lo = hi THEN crc_byte(crc, data[lo])
    ELSE LET mid == (lo + hi) \div 2
             left == crc_fold(crc, data, lo, mid)
         IN  IF left < 0 THEN left ELSE crc_fold(left, data, mid + 1, hi)

crc_compute(data) == crc_fold(U16 - 1, data, 1, Len(data))

\* --------------------------------------------------- function model
Functions == {"ReadCoils", "ReadDiscreteInputs",
              "ReadMultipleHoldingRegisters", "ReadInputRegisters",
              "WriteSingleCoil", "WriteSingleHoldingRegister",
              "WriteMultipleCoils", "WriteMultipleHoldingRegisters"}

\* Function::to_code : the one-byte code of each function
to_code(function) ==
    CASE function = "ReadCoils" -> 1
      [] function = "ReadDiscreteInputs" -> 2
      [] function = "ReadMultipleHoldingRegisters" -> 3
      [] function = "ReadInputRegisters" -> 4
      [] function = "WriteSingleCoil" -> 5
      [] function = "WriteSingleHoldingRegister" -> 6
      [] function = "WriteMultipleCoils" -> 15
      [] function = "WriteMultipleHoldingRegisters" -> 16

Exceptions == {"IllegalFunction", "IllegalDataAddress"}

\* Exception::to_code : the one-byte code of each exception
exception_to_code(exception) ==
    CASE exception = "IllegalFunction" -> 1
      [] exception = "IllegalDataAddress" -> 2

Versions == {"Tcp", "Rtu"}

\* ------------------------------------------------------------ bodies
ReadCoilsResponse_new(values) ==
    [bytes_number |-> as_u8(Len(values)), values |-> values]

ReadDiscreteInputsResponse_new(values) ==
    [bytes_number |-> as_u8(Len(values)), values |-> values]

ReadMultipleHoldingRegistersResponse_new(values) ==
    [bytes_number |-> as_u8(Len(values)), values |-> values]

ReadInputRegistersResponse_new(values) ==
    [bytes_number |-> as_u8(Len(values)), values |-> values]

WriteSingleCoilResponse_new(coil_address, value) ==
    [coil_address |-> coil_address, value |-> value]

WriteSingleHoldingRegisterResponse_new(register_address, value) ==
    [register_address |-> register_address, value |-> value]

WriteMultipleCoilsResponse_new(first_address, coils_number) ==
    [first_address |-> first_address, coils_number |-> coils_number]

WriteMultipleHoldingRegistersResponse_new(first_address, registers_number) ==
    [first_address |-> first_address, registers_number |-> registers_number]

ExceptionResponse_new(exception) == [exception |-> exception]

ReadTags == {"ReadCoils", "ReadDiscreteInputs",
             "ReadMultipleHoldingRegisters", "ReadInputRegisters"}

Tags == Functions \cup {"Exception"}

\* Length::len of the body of a Response with the given variant tag
len(tag, body) ==
    CASE tag = "ReadCoils" -> as_u16(1 + as_u16(Len(body.values)))
      [] tag = "ReadDiscreteInputs" -> as_u16(1 + as_u16(Len(body.values)))
      [] tag = "ReadMultipleHoldingRegisters" ->
            as_u16(1 + as_u16(Len(body.values)))
      [] tag = "ReadInputRegisters" -> as_u16(1 + as_u16(Len(body.values)))
      [] tag = "WriteSingleCoil" -> 4
      [] tag = "WriteSingleHoldingRegister" -> 4
      [] tag = "WriteMultipleCoils" -> 4
      [] tag = "WriteMultipleHoldingRegisters" -> 4
      [] tag = "Exception" -> 1

\* BytesMut::from(body) for each of the nine body structures
BodyBytes(tag, body) ==
    CASE tag = "ReadCoils" ->
            put_slice(put_u8(<<>>, body.bytes_number), body.values)
      [] tag = "ReadDiscreteInputs" ->
            put_slice(put_u8(<<>>, body.bytes_number), body.values)
      [] tag = "ReadMultipleHoldingRegisters" ->
            put_slice(put_u8(<<>>, body.bytes_number), body.values)
      [] tag = "ReadInputRegisters" ->
            put_slice(put_u8(<<>>, body.bytes_number), body.values)
      [] tag = "WriteSingleCoil" ->
            put_u16(put_u16(<<>>, body.coil_address), body.value)
      [] tag = "WriteSingleHoldingRegister" ->
            put_u16(put_u16(<<>>, body.register_address), body.value)
      [] tag = "WriteMultipleCoils" ->
            put_u16(put_u16(<<>>, body.first_address), body.coils_number)
      [] tag = "WriteMultipleHoldingRegisters" ->
            put_u16(put_u16(<<>>, body.first_address), body.registers_number)
      [] tag = "Exception" ->
            put_u8(<<>>, exception_to_code(body.exception))

\* the exception flag added as bit 0x08 instead of 0x80
function_code_low_bit(head) ==
    IF head.is_exception THEN to_code(head.function) + 8
    ELSE to_code(head.function)

\* ------------------------------------------------------------ header
\* the function byte of BytesMut::from(head) : u8 addition of 0x80
function_code(head) ==
    IF head.is_exception THEN to_code(head.function) + 128
    ELSE to_code(head.function)

\* the stream header written for every transport version
HeadBytes_always_mbap(head) ==
    put_u8(put_u8(put_u16(put_u16(put_u16(<<>>, head.tid), head.pid),
                          head.length), head.uid),
           IF head.is_exception THEN to_code(head.function) + 128
           ELSE to_code(head.function))

\* BytesMut::from(head)
HeadBytes(head) ==
    LET mbap == IF head.version = "Tcp"
                THEN put_u16(put_u16(put_u16(<<>>, head.tid), head.pid),
                             head.length)
                ELSE <<>>
    IN  put_u8(put_u8(mbap, head.uid), function_code(head))

\* --------------------------------------------------------- serializer
\* response_to_bytesmut(item, dst) : the value of dst after the call
response_to_bytesmut(it, buf) ==
    LET version == it.head.version
        written == put_slice(put_slice(buf, HeadBytes(it.head)),
                             BodyBytes(it.tag, it.body))
    IN  IF version = "Rtu" THEN put_u16(written, crc_compute(written))
        ELSE written

\* set_head replacing the transaction id only
set_head_tid_only(self, h) == [self EXCEPT !.head.tid = h.tid]

\* Response::set_head(self, new_head) : the value of self after the call
set_head(self, h) == [self EXCEPT !.head = h]

\* ------------------------------------------------------- frame builder
\* Head::new as the frame builder calls it: protocol id zero, declared
\* length one more than the body's wire length
Head_new(version, tid, uid, function, body_length, is_exception) ==
    [version |-> version, tid |-> tid, pid |-> 0,
     length |-> as_u16(1 + body_length), uid |-> uid,
     function |-> function, is_exception |-> is_exception]

\* a Response value: variant tag, header, body
Response(tag, head, body) == [tag |-> tag, head |-> head, body |-> body]

\* Frame::<function>_response : header derived from the freshly built body
frame_response(version, tid, uid, function, body) ==
    Response(function,
             Head_new(version, tid, uid, function, len(function, body), FALSE),
             body)

\* Frame::exception_response : exception flag set, body is the exception code
frame_exception(version, tid, uid, function, exception) ==
    Response("Exception",
             Head_new(version, tid, uid, function,
                      len("Exception", ExceptionResponse_new(exception)), TRUE),
             ExceptionResponse_new(exception))

\* ----------------------------------------------------------- Display
\* the digits of the `X` format
HexDigits == <<"0", "1", "2", "3", "4", "5", "6", "7",
               "8", "9", "A", "B", "C", "D", "E", "F">>

\* `{:X}` : no zero padding, a byte below 16 is one digit
fmt_X(byte) ==
    IF byte < 16 THEN <<HexDigits[byte + 1]>>
    ELSE <<HexDigits[(byte \div 16) + 1], HexDigits[(byte % 16) + 1]>>

\* write!(f, "{:02X}", byte) : two uppercase digits, zero padded
fmt_02X(byte) == <<HexDigits[(byte \div 16) + 1], HexDigits[(byte % 16) + 1]>>

\* the loop of Display::fmt over the bytes of buf
RECURSIVE write_bytes(_, _, _)
write_bytes(f, buf, first) ==
    IF buf = <<>> THEN f
    ELSE write_bytes((IF first THEN f ELSE Append(f, " "))
                        \o fmt_02X(Head(buf)),
                     Tail(buf), FALSE)

\* <Response as Display>::fmt : a clone is encoded into a new buffer
Display_fmt(self) ==
    write_bytes(<<>>, response_to_bytesmut(self, <<>>), TRUE)

\* -------------------------------------------------------------- state
\* frame    : the frame builder (Frame::tcp() or Frame::rtu())
\* item     : the Response the caller holds, NoItem once it was moved
\* dst      : the output buffer of the codec
\* start    : length of dst before the last encode call
\* last     : the Response the last encode call consumed
\* alone    : for each encode call, the frame the same Response yields
\*            when encoded into an empty buffer
\* new_head : the argument of the last set_head call
\* text     : the characters the last format call wrote
\* op       : the last operation
NoItem == [tag |-> "None"]
NoHead == [version |-> "None"]

RECURSIVE Concat(_)
Concat(frames) ==
    IF frames = <<>> THEN <<>> ELSE Head(frames) \o Concat(Tail(frames))

Built(it) ==
    /\ item' = it
    /\ op' = "new"
    /\ new_head' = NoHead
    /\ UNCHANGED <<frame, dst, start, last, alone, text>>

ReadCoils(tid, uid, values) ==
    Built(frame_response(frame.version, tid, uid, "ReadCoils",
                         ReadCoilsResponse_new(values)))

ReadDiscreteInputs(tid, uid, values) ==
    Built(frame_response(frame.version, tid, uid, "ReadDiscreteInputs",
                         ReadDiscreteInputsResponse_new(values)))

ReadMultipleHoldingRegisters(tid, uid, values) ==
    Built(frame_response(frame.version, tid, uid,
                         "ReadMultipleHoldingRegisters",
                         ReadMultipleHoldingRegistersResponse_new(values)))

ReadInputRegisters(tid, uid, values) ==
    Built(frame_response(frame.version, tid, uid, "ReadInputRegisters",
                         ReadInputRegistersResponse_new(values)))

WriteSingleCoil(tid, uid, a, v) ==
    Built(frame_response(frame.version, tid, uid, "WriteSingleCoil",
                         WriteSingleCoilResponse_new(a, v)))

WriteSingleHoldingRegister(tid, uid, a, v) ==
    Built(frame_response(frame.version, tid, uid,
                         "WriteSingleHoldingRegister",
                         WriteSingleHoldingRegisterResponse_new(a, v)))

WriteMultipleCoils(tid, uid, a, n) ==
    Built(frame_response(frame.version, tid, uid, "WriteMultipleCoils",
                         WriteMultipleCoilsResponse_new(a, n)))

WriteMultipleHoldingRegisters(tid, uid, a, n) ==
    Built(frame_response(frame.version, tid, uid,
                         "WriteMultipleHoldingRegisters",
                         WriteMultipleHoldingRegistersResponse_new(a, n)))

Exception(tid, uid, function, exception) ==
    Built(frame_exception(frame.version, tid, uid, function, exception))

\* heads a dispatcher retargets a response to
Retarget(version, function, is_exception) ==
    [version |-> version, tid |-> 258, pid |-> 1, length |-> 6, uid |-> 17,
     function |-> function, is_exception |-> is_exception]

\* response.set_head(h) with the head a dispatcher retargets the response to
SetHead(version, function, is_exception) ==
    LET h == Retarget(version, function, is_exception)
    IN  /\ item.tag # "None"
        /\ item' = set_head(item, h)
        /\ new_head' = h
        /\ op' = "set_head"
        /\ UNCHANGED <<frame, dst, start, last, alone, text>>

\* response_to_bytesmut(item, &mut dst) : the Response is moved into the call
Encode(limit) ==
    /\ item.tag # "None"
    /\ Len(alone) < limit
    /\ dst' = response_to_bytesmut(item, dst)
    /\ start' = Len(dst)
    /\ last' = item
    /\ alone' = Append(alone, response_to_bytesmut(item, <<>>))
    /\ item' = NoItem
    /\ new_head' = NoHead
    /\ op' = "encode"
    /\ UNCHANGED <<frame, text>>

\* BytesMut::from(body) applied to the body of the Response held
BodyInto ==
    /\ item.tag # "None"
    /\ op = "new"
    /\ dst' = BodyBytes(item.tag, item.body)
    /\ op' = "into"
    /\ UNCHANGED <<frame, item, start, last, alone, new_head, text>>

\* format!("{}", response) : Display::fmt takes the Response by reference
Fmt ==
    /\ item.tag # "None"
    /\ text' = Display_fmt(item)
    /\ op' = "fmt"
    /\ UNCHANGED <<frame, item, dst, start, last, alone, new_head>>

\* the bytes the last encode call appended to dst
Appended == SubSeq(dst, start + 1, Len(dst))

\* ------------------------------------------------------------- inputs
ValueBytes == {205, 107}

\* every vector of value bytes of length 0..n
RECURSIVE VecsUpTo(_)
VecsUpTo(n) ==
    IF n = 0 THEN {<<>>}
    ELSE LET shorter == VecsUpTo(n - 1)
         IN  shorter \cup {Append(v, b) : v \in {w \in shorter : Len(w) = n - 1},
                                          b \in ValueBytes}

\* vectors around the range of the one-byte count field
LongLens == {U8 - 1, U8, U8 + 1, U8 + 44}
LongVecs == {[i \in 1..n |-> b] : n \in LongLens, b \in ValueBytes}

InitWith(buffers) ==
    /\ frame \in {[version |-> v] : v \in Versions}
    /\ item = NoItem
    /\ dst \in buffers
    /\ start = 0
    /\ last = NoItem
    /\ alone = <<>>
    /\ new_head = NoHead
    /\ text = <<>>
    /\ op = "init"

\* ------------------------------- a codec session of several messages
Init == InitWith({<<>>})

Next ==
    \/ \E vs \in {<<205, 107>>} : ReadCoils(1, 1, vs)
    \/ \E vs \in {<<205, 107>>} : ReadDiscreteInputs(1, 1, vs)
    \/ \E vs \in {<<205, 107>>} : ReadMultipleHoldingRegisters(1, 1, vs)
    \/ \E vs \in {<<205, 107>>} : ReadInputRegisters(1, 1, vs)
    \/ \E w \in {<<1, 65280>>} : WriteSingleCoil(1, 1, w[1], w[2])
    \/ \E w \in {<<1, 65280>>} : WriteSingleHoldingRegister(1, 1, w[1], w[2])
    \/ \E w \in {<<1, 65280>>} : WriteMultipleCoils(1, 1, w[1], w[2])
    \/ \E w \in {<<1, 65280>>} : WriteMultipleHoldingRegisters(1, 1, w[1], w[2])
    \/ \E e \in {"IllegalDataAddress"} : Exception(1, 1, "ReadCoils", e)
    \/ \E f \in {"WriteSingleCoil"} : SetHead("Tcp", f, FALSE)
    \/ Encode(MaxFrames)

Spec == Init /\ [][Next]_vars

\* ------------------- one message: build, retarget, encode (SpecMsg)
Tids == {1, 772}
Words == {<<1, 65280>>, <<4660, 3>>}
\* dst before the call: empty, or still holding the frame of an earlier
\* Tcp exception response (tid 1, length 2, unit 1, 0x81, code 2)
PriorBuffers == {<<>>, <<0, 1, 0, 0, 0, 2, 1, 129, 2>>}

\* the single message is built and retargeted until it is encoded
Fresh == alone = <<>>

NextMsg ==
    \/ \E t \in Tids, vs \in VecsUpTo(MaxLen) : Fresh /\ ReadCoils(t, 1, vs)
    \/ \E t \in Tids, vs \in VecsUpTo(MaxLen) :
          Fresh /\ ReadDiscreteInputs(t, 1, vs)
    \/ \E t \in Tids, vs \in VecsUpTo(MaxLen) :
          Fresh /\ ReadMultipleHoldingRegisters(t, 1, vs)
    \/ \E t \in Tids, vs \in VecsUpTo(MaxLen) :
          Fresh /\ ReadInputRegisters(t, 1, vs)
    \/ \E t \in Tids, w \in Words : Fresh /\ WriteSingleCoil(t, 1, w[1], w[2])
    \/ \E t \in Tids, w \in Words :
          Fresh /\ WriteSingleHoldingRegister(t, 1, w[1], w[2])
    \/ \E t \in Tids, w \in Words :
          Fresh /\ WriteMultipleCoils(t, 1, w[1], w[2])
    \/ \E t \in Tids, w \in Words :
          Fresh /\ WriteMultipleHoldingRegisters(t, 1, w[1], w[2])
    \/ \E t \in Tids, f \in Functions, e \in Exceptions :
          Fresh /\ Exception(t, 1, f, e)
    \/ \E v \in Versions, f \in Functions, e \in BOOLEAN :
          SetHead(v, f, e)
    \/ Encode(1)

SpecMsg == InitWith(PriorBuffers) /\ [][NextMsg]_vars

\* ------------- read-style constructors and body encoders (SpecNew)
Vectors == VecsUpTo(MaxLen) \cup LongVecs

NextNew ==
    \/ \E vs \in Vectors : ReadCoils(1, 1, vs)
    \/ \E vs \in Vectors : ReadDiscreteInputs(1, 1, vs)
    \/ \E vs \in Vectors : ReadMultipleHoldingRegisters(1, 1, vs)
    \/ \E vs \in Vectors : ReadInputRegisters(1, 1, vs)
    \/ BodyInto

SpecNew == Init /\ [][NextNew]_vars

\* ------------------- the nine bodies: len() and BytesMut::from (SpecBody)
\* vector lengths around the range of the u16 that len() returns; 65535 is
\* left out: there 1 + 65535 overflows the u16 addition itself
WideLens == {U16 - 2, U16, U16 + 1}
WideVecs == {[i \in 1..n |-> 107] : n \in WideLens}
BodyVectors == Vectors \cup WideVecs
BodyWords == Words \cup {<<0, 0>>, <<U16 - 1, U16 - 1>>}

\* one body is built, then converted
Unbuilt == op = "init"

NextBody ==
    \/ \E vs \in BodyVectors : Unbuilt /\ ReadCoils(1, 1, vs)
    \/ \E vs \in BodyVectors : Unbuilt /\ ReadDiscreteInputs(1, 1, vs)
    \/ \E vs \in BodyVectors : Unbuilt /\ ReadMultipleHoldingRegisters(1, 1, vs)
    \/ \E vs \in BodyVectors : Unbuilt /\ ReadInputRegisters(1, 1, vs)
    \/ \E w \in BodyWords : Unbuilt /\ WriteSingleCoil(1, 1, w[1], w[2])
    \/ \E w \in BodyWords : Unbuilt /\ WriteSingleHoldingRegister(1, 1, w[1], w[2])
    \/ \E w \in BodyWords : Unbuilt /\ WriteMultipleCoils(1, 1, w[1], w[2])
    \/ \E w \in BodyWords : Unbuilt /\ WriteMultipleHoldingRegisters(1, 1, w[1], w[2])
    \/ \E f \in Functions, e \in Exceptions : Unbuilt /\ Exception(1, 1, f, e)
    \/ BodyInto

SpecBody == Init /\ [][NextBody]_vars

\* -------------------- one message: build, retarget, format (SpecFmt)
\* the message is built and retargeted until it is formatted
Unformatted == op # "fmt"

NextFmt ==
    \/ \E t \in Tids, vs \in VecsUpTo(MaxLen) :
          Unformatted /\ ReadCoils(t, 1, vs)
    \/ \E t \in Tids, vs \in VecsUpTo(MaxLen) :
          Unformatted /\ ReadDiscreteInputs(t, 1, vs)
    \/ \E t \in Tids, vs \in VecsUpTo(MaxLen) :
          Unformatted /\ ReadMultipleHoldingRegisters(t, 1, vs)
    \/ \E t \in Tids, vs \in VecsUpTo(MaxLen) :
          Unformatted /\ ReadInputRegisters(t, 1, vs)
    \/ \E t \in Tids, w \in Words :
          Unformatted /\ WriteSingleCoil(t, 1, w[1], w[2])
    \/ \E t \in Tids, w \in Words :
          Unformatted /\ WriteSingleHoldingRegister(t, 1, w[1], w[2])
    \/ \E t \in Tids, w \in Words :
          Unformatted /\ WriteMultipleCoils(t, 1, w[1], w[2])
    \/ \E t \in Tids, w \in Words :
          Unformatted /\ WriteMultipleHoldingRegisters(t, 1, w[1], w[2])
    \/ \E t \in Tids, f \in Functions, e \in Exceptions :
          Unformatted /\ Exception(t, 1, f, e)
    \/ \E v \in Versions, f \in Functions, e \in BOOLEAN :
          Unformatted /\ SetHead(v, f, e)
    \/ Fmt

SpecFmt == Init /\ [][NextFmt]_vars

\* =============================================================== claims

\* the header and body bytes of the Response the last encode call consumed
LastFrameBytes == HeadBytes(last.head) \o BodyBytes(last.tag, last.body)

\* C1: the two checksum bytes an Rtu encode appends are the checksum of the
\* header and body bytes of that frame alone, also when dst already held
\* earlier frames
C1_ChecksumOverThisFrame ==
    (op = "encode" /\ last.head.version = "Rtu") =>
        SubSeq(dst, Len(dst) - 1, Len(dst))
            = put_u16(<<>>, crc_compute(LastFrameBytes))

\* C2: a read-style body built by new() has bytes_number equal to the number
\* of value bytes, and the count byte on the wire equals the number of bytes
\* that follow it
C2_ByteCountEqualsLength ==
    /\ item.tag \in ReadTags =>
          item.body.bytes_number = Len(item.body.values)
    /\ (op = "into" /\ item.tag \in ReadTags) => dst[1] = Len(dst) - 1

\* C3: the variant tag equals the function of the header, the Exception
\* variant has the exception flag set
C3_TagMatchesHeader ==
    item.tag # "None" =>
        IF item.tag = "Exception" THEN item.head.is_exception
        ELSE item.tag = item.head.function

\* C4: the declared length a Tcp encode writes is 1 + body.len()
C4_DeclaredLength ==
    (op = "encode" /\ last.head.version = "Tcp") =>
        SubSeq(Appended, 5, 6)
            = <<(1 + len(last.tag, last.body)) \div U8,
                (1 + len(last.tag, last.body)) % U8>>

\* C5: the checksum value c of an Rtu frame is appended low byte first:
\* the second-to-last byte is c mod 256, the last byte is c div 256
C5_ChecksumLittleEndian ==
    (op = "encode" /\ last.head.version = "Rtu") =>
        LET c == crc_compute(SubSeq(dst, 1, Len(dst) - 2))
        IN  /\ dst[Len(dst) - 1] = c % U8
            /\ dst[Len(dst)] = c \div U8

\* the read-coils response of the concrete vector, encoded into an empty dst
VectorEncoded ==
    /\ op = "encode"
    /\ start = 0
    /\ last.tag = "ReadCoils"
    /\ last.body.values = <<205, 107>>
    /\ last.head.version = "Tcp"
    /\ last.head.tid = 1
    /\ last.head.pid = 0
    /\ last.head.length = 4
    /\ last.head.uid = 1
    /\ last.head.function = "ReadCoils"
    /\ ~last.head.is_exception

\* C6 as stated: the vector serializes to the ten bytes
\* 00 01 00 00 00 04 01 01 CD 6B
C6_TenBytes ==
    VectorEncoded => dst = <<0, 1, 0, 0, 0, 4, 1, 1, 205, 107>>

\* C6 amended: byte_count 2, wire length 3, and the frame is the eleven
\* bytes 00 01 00 00 00 04 01 01 02 CD 6B, the count byte 02 on the wire
C6_ElevenBytes ==
    VectorEncoded =>
        /\ last.body.bytes_number = 2
        /\ len(last.tag, last.body) = 3
        /\ dst = <<0, 1, 0, 0, 0, 4, 1, 1, 2, 205, 107>>

C6_Witness == VectorEncoded

C8_BufferIsConcatenation == dst = Concat(alone)

\* C9: set_head(h) leaves the header equal to h in all fields and the
\* variant tag and body unchanged
C9_SetHeadReplaces ==
    [][op' = "set_head" =>
          /\ item'.head = new_head'
          /\ item'.tag = item.tag
          /\ item'.body = item.body]_vars

C9_Witness ==
    /\ op = "set_head"
    /\ item.tag = "ReadCoils"
    /\ item.head = new_head
    /\ item.head.version = "Rtu"
    /\ item.head.function = "WriteMultipleCoils"
    /\ item.head.is_exception
    /\ item.head.tid = 258

\* C10: the function byte is code | 0x80 with the exception flag and the code
\* without it; the addition stays below 256 and equals the bitwise or
C10_FunctionByte ==
    op = "encode" =>
        LET h == last.head
            code == to_code(h.function)
            at == IF h.version = "Tcp" THEN 8 ELSE 2
        IN  /\ Appended[at] = IF h.is_exception THEN BitOr(code, 128, 8)
                              ELSE code
            /\ code + 128 < U8
            /\ code + 128 = BitOr(code, 128, 8)

C10_Witness ==
    /\ op = "encode"
    /\ last.head.is_exception
    /\ last.head.function = "WriteMultipleHoldingRegisters"
    /\ Appended[IF last.head.version = "Tcp" THEN 8 ELSE 2] = 144

WriteTags == {"WriteSingleCoil", "WriteSingleHoldingRegister",
              "WriteMultipleCoils", "WriteMultipleHoldingRegisters"}

\* C11: len() of a body is 4 for the four write confirmations whatever their
\* fields, 1 for an exception body, and 1 + N for a read-style body holding
\* N value bytes, for every N
C11_BodyLength ==
    item.tag # "None" =>
        len(item.tag, item.body)
            = CASE item.tag \in WriteTags -> 4
                [] item.tag = "Exception" -> 1
                [] item.tag \in ReadTags -> 1 + Len(item.body.values)

\* a 16-bit field as two bytes, most significant first
BigEndian(w) == <<w \div U8, w % U8>>

\* the response column of the body table
BodyTable(tag, body) ==
    CASE tag \in ReadTags -> <<body.bytes_number>> \o body.values
      [] tag = "WriteSingleCoil" ->
            BigEndian(body.coil_address) \o BigEndian(body.value)
      [] tag = "WriteSingleHoldingRegister" ->
            BigEndian(body.register_address) \o BigEndian(body.value)
      [] tag = "WriteMultipleCoils" ->
            BigEndian(body.first_address) \o BigEndian(body.coils_number)
      [] tag = "WriteMultipleHoldingRegisters" ->
            BigEndian(body.first_address) \o BigEndian(body.registers_number)
      [] tag = "Exception" -> <<exception_to_code(body.exception)>>

\* the layout half of C12 alone: the bytes BytesMut::from(body) yields are
\* the fields of the table in order
BodyLayout == op = "into" => dst = BodyTable(item.tag, item.body)

\* C12: each body is encoded as the table states (count byte then value
\* bytes; address then value, or start address then quantity, as big-endian
\* 16-bit fields; the exception code byte), and the number of bytes emitted
\* equals len() of the body
C12_BodyEncoding ==
    op = "into" =>
        /\ dst = BodyTable(item.tag, item.body)
        /\ Len(dst) = len(item.tag, item.body)

UpperHex == {"0", "1", "2", "3", "4", "5", "6", "7",
             "8", "9", "A", "B", "C", "D", "E", "F"}

\* the value of an uppercase hexadecimal digit
HexValue(c) ==
    CASE c = "0" -> 0 [] c = "1" -> 1 [] c = "2" -> 2 [] c = "3" -> 3
      [] c = "4" -> 4 [] c = "5" -> 5 [] c = "6" -> 6 [] c = "7" -> 7
      [] c = "8" -> 8 [] c = "9" -> 9 [] c = "A" -> 10 [] c = "B" -> 11
      [] c = "C" -> 12 [] c = "D" -> 13 [] c = "E" -> 14 [] c = "F" -> 15

\* t is the hex dump of bytes: two uppercase digits a byte, one space
\* between consecutive bytes, nothing before the first or after the last
IsHexDump(t, bytes) ==
    /\ Len(t) = IF bytes = <<>> THEN 0 ELSE 3 * Len(bytes) - 1
    /\ \A i \in 1..Len(bytes) :
          /\ t[3 * i - 2] \in UpperHex
          /\ t[3 * i - 1] \in UpperHex
          /\ 16 * HexValue(t[3 * i - 2]) + HexValue(t[3 * i - 1]) = bytes[i]
          /\ i < Len(bytes) => t[3 * i] = " "

\* C13: the Display text of a Response is the hex dump of exactly the bytes
\* response_to_bytesmut produces for it into an empty buffer, and formatting
\* leaves the Response unchanged
C13_DisplayIsHexDump ==
    [][op' = "fmt" =>
          /\ item' = item
          /\ IsHexDump(text', response_to_bytesmut(item, <<>>))]_vars

\* a Tcp read-coils response of CD 6B, tid 1, unit 1, was formatted as
\* "00 01 00 00 00 04 01 01 02 CD 6B"
C13_Witness ==
    /\ op = "fmt"
    /\ item.tag = "ReadCoils"
    /\ item.head.version = "Tcp"
    /\ item.head.function = "ReadCoils"
    /\ item.body.values = <<205, 107>>
    /\ text = <<"0", "0", " ", "0", "1", " ", "0", "0", " ", "0", "0", " ",
                "0", "0", " ", "0", "4", " ", "0", "1", " ", "0", "1", " ",
                "0", "2", " ", "C", "D", " ", "6", "B">>

====
